---- MODULE Spec2Model ----
(***************************************************************************)
(* A model of the IR/JIT pipeline scripts generate_ir.py, jit_compile.py,  *)
(* optimize_ir.py and linear_regression_ir.py: the emission of the IR      *)
(* through the builder, the parse/verify/optimize/JIT sequence of each     *)
(* script, and the execution of the emitted functions block by block.      *)
(***************************************************************************)
EXTENDS Integers, Sequences, FiniteSets, TLC

(***************************************************************************)
(* 32-bit two's-complement integers (ir.IntType(32)).  The checker's own   *)
(* integers are 32 bits wide too, so every operation below is written so   *)
(* that no intermediate value leaves IntMin..IntMax.                       *)
(***************************************************************************)
IntMax == 2147483647
IntMin == -IntMax - 1

\* (an add that saturates instead of wrapping)
Add32Saturating(a, b) ==
    IF b > 0 /\ a > IntMax - b THEN IntMax
    ELSE IF b < 0 /\ a < IntMin - b THEN IntMin
    ELSE a + b

\* builder.add on i32: the sum reduced modulo 2^32 into IntMin..IntMax.
Add32(a, b) ==
    IF b > 0 /\ a > IntMax - b THEN (a - IntMax - 1) + (b - IntMax - 1)
    ELSE IF b < 0 /\ a < IntMin - b THEN (a + IntMax + 1) + (b + IntMax + 1)
    ELSE a + b

\* The low 16 bits of x * y, for x and y in 0..65535.
MulLow16(x, y) ==
    ((x % 256) * y + (((x \div 256) * (y % 256)) % 256) * 256) % 65536

\* builder.mul on i32: the product reduced modulo 2^32 into IntMin..IntMax,
\* computed on the 16-bit halves of the operands' two's-complement words.
Mul32(a, b) ==
    LET al    == a % 65536
        ah    == (a \div 65536) % 65536
        bl    == b % 65536
        bh    == (b \div 65536) % 65536
        t0    == al * (bl % 256)
        t1    == al * (bl \div 256)
        u     == t0 + (t1 % 256) * 256
        lo16  == u % 65536
        carry == u \div 65536 + t1 \div 256
        hi16  == (carry + MulLow16(ah, bl) + MulLow16(al, bh)) % 65536
    IN  IF hi16 >= 32768 THEN (hi16 - 65536) * 65536 + lo16
        ELSE hi16 * 65536 + lo16

\* (a comparison with <= for <)
ICmpSLE(a, b) == a <= b

\* builder.icmp_signed('<', a, b)
ICmpSLT(a, b) == a < b

(***************************************************************************)
(* Single-precision floats (ir.FloatType()).  A finite value is            *)
(* (-1)^s * m * 2^e with m = 0 (and e = 0) or 2^23 <= m < 2^24; the other  *)
(* values are the infinities and NaN.  Every operation rounds to nearest,  *)
(* ties to even.  The exponent is unbounded: the values the emitted code   *)
(* can produce from i32 inputs stay far inside the normal range.           *)
(***************************************************************************)
MantBits == 24

Fin(s, m, e) == [k |-> "fin", s |-> s, m |-> m, e |-> e]
FInf(s) == [k |-> "inf", s |-> s, m |-> 0, e |-> 0]
FNaN == [k |-> "nan", s |-> 0, m |-> 0, e |-> 0]
FZero(s) == Fin(s, 0, 0)

\* The number of bits of m, for 0 <= m < 2^31.
BitLen(m) == Cardinality({k \in 0..30 : 2^k <= m})

\* The float nearest to (-1)^s * m * 2^e, for 0 < m < 2^31 whose lowest bit
\* stands for every bit below it (a sticky bit) when m has more than
\* MantBits + 1 bits.
RoundPack(s, m, e) ==
    LET len == BitLen(m) IN
    IF len <= MantBits
    THEN Fin(s, m * 2^(MantBits - len), e - (MantBits - len))
    ELSE LET d    == len - MantBits
             q    == m \div 2^d
             r    == m % 2^d
             half == 2^(d - 1)
             up   == r > half \/ (r = half /\ q % 2 = 1)
             q1   == IF up THEN q + 1 ELSE q
         IN  IF q1 = 2^MantBits
             THEN Fin(s, 2^(MantBits - 1), e + d + 1)
             ELSE Fin(s, q1, e + d)

\* m with its lowest bit set when inexact.
Jam(m, inexact) == IF inexact /\ m % 2 = 0 THEN m + 1 ELSE m

\* builder.sitofp(v, ir.FloatType())
SIToFP(v) ==
    IF v = 0 THEN FZero(0)
    ELSE IF v = IntMin THEN Fin(1, 2^(MantBits - 1), 8)
    ELSE IF v < 0 THEN RoundPack(1, -v, 0)
    ELSE RoundPack(0, v, 0)

Xor(s, t) == (s + t) % 2

\* builder.fmul
FMul(a, b) ==
    IF a.k = "nan" \/ b.k = "nan" THEN FNaN
    ELSE IF a.k = "inf" \/ b.k = "inf"
    THEN (IF (a.k = "fin" /\ a.m = 0) \/ (b.k = "fin" /\ b.m = 0)
          THEN FNaN ELSE FInf(Xor(a.s, b.s)))
    ELSE IF a.m = 0 \/ b.m = 0 THEN FZero(Xor(a.s, b.s))
    ELSE LET a1  == a.m \div 4096
             a0  == a.m % 4096
             b1  == b.m \div 4096
             b0  == b.m % 4096
             mid == a1 * b0 + a0 * b1
             low == a0 * b0 + (mid % 4096) * 4096
             lo  == low % 2^24
             hi  == a1 * b1 + mid \div 4096 + low \div 2^24
         IN  RoundPack(Xor(a.s, b.s),
                       Jam(hi * 64 + lo \div 2^18, lo % 2^18 # 0),
                       a.e + b.e + 18)

FNeg(a) == IF a.k = "nan" THEN a ELSE [a EXCEPT !.s = 1 - a.s]

\* |a| >= |b| for finite nonzero a and b
MagGE(a, b) == a.e > b.e \/ (a.e = b.e /\ a.m >= b.m)

\* a + b for finite nonzero a and b with |a| >= |b|
FAddOrdered(a, b) ==
    LET d  == a.e - b.e
        A  == a.m * 8
        B  == IF d >= MantBits + 3 THEN 1
              ELSE Jam((b.m * 8) \div 2^d, (b.m * 8) % 2^d # 0)
        S  == IF a.s = b.s THEN A + B ELSE A - B
    IN  IF S = 0 THEN FZero(0) ELSE RoundPack(a.s, S, a.e - 3)

FAdd(a, b) ==
    IF a.k = "nan" \/ b.k = "nan" THEN FNaN
    ELSE IF a.k = "inf"
    THEN (IF b.k = "inf" /\ b.s # a.s THEN FNaN ELSE a)
    ELSE IF b.k = "inf" THEN b
    ELSE IF a.m = 0 /\ b.m = 0 THEN FZero(IF a.s = 1 /\ b.s = 1 THEN 1 ELSE 0)
    ELSE IF a.m = 0 THEN b
    ELSE IF b.m = 0 THEN a
    ELSE IF MagGE(a, b) THEN FAddOrdered(a, b) ELSE FAddOrdered(b, a)

\* builder.fsub
\* (fsub with its operands exchanged)
FSubReversed(a, b) == FAdd(b, FNeg(a))

FSub(a, b) == FAdd(a, FNeg(b))

\* floor(num * 2^26 / den) with the remainder as a sticky bit, for
\* 2^23 <= num, den < 2^24, by long division in steps of at most 7 bits.
LongDiv(num, den) ==
    LET q0 == num \div den
        r0 == num % den
        q1 == (r0 * 128) \div den
        r1 == (r0 * 128) % den
        q2 == (r1 * 128) \div den
        r2 == (r1 * 128) % den
        q3 == (r2 * 128) \div den
        r3 == (r2 * 128) % den
        q4 == (r3 * 32) \div den
        r4 == (r3 * 32) % den
    IN  Jam((((q0 * 128 + q1) * 128 + q2) * 128 + q3) * 32 + q4, r4 # 0)

\* builder.fdiv
FDiv(a, b) ==
    IF a.k = "nan" \/ b.k = "nan" THEN FNaN
    ELSE IF a.k = "inf"
    THEN (IF b.k = "inf" THEN FNaN ELSE FInf(Xor(a.s, b.s)))
    ELSE IF b.k = "inf" THEN FZero(Xor(a.s, b.s))
    ELSE IF b.m = 0 THEN (IF a.m = 0 THEN FNaN ELSE FInf(Xor(a.s, b.s)))
    ELSE IF a.m = 0 THEN FZero(Xor(a.s, b.s))
    ELSE RoundPack(Xor(a.s, b.s),
                   LongDiv(a.m, b.m),
                   a.e - b.e - (MantBits + 2))

(***************************************************************************)
(* The scripts, statement by statement.  A statement is a record: op is    *)
(* the call made, dst the name it binds (or the block or symbol it         *)
(* creates), a and b its operands, ln its line in the script.  An operand  *)
(* is the name of a Python variable of the script or a constant "#c".      *)
(* A statement that makes two builder calls is listed as two statements.   *)
(***************************************************************************)
S(op, dst, a, b, ln) == [op |-> op, dst |-> dst, a |-> a, b |-> b, ln |-> ln]

\* ir.Constant(ir.IntType(32), c) and ir.Constant(ir.FloatType(), 0.0)
ConstOf == ("#0" :> 0) @@ ("#1" :> 1) @@ ("#42" :> 42)

\* generate_ir.py
GenerateIrScript == <<
    S("Module", "module", "example_module", "", 4),
    S("Function", "func", "example_function", "", 8),
    S("append_basic_block", "entry", "", "", 11),
    S("IRBuilder", "builder", "entry", "", 12),
    S("ret", "", "#42", "", 16),
    S("print", "", "module", "", 19) >>

\* (the function without its ret)
JitCompileEmissionNoRet == <<
    S("initialize", "", "llvm", "", 5),
    S("initialize", "", "native_target", "", 6),
    S("initialize", "", "native_asmprinter", "", 7),
    S("Module", "module", "example_module", "", 10),
    S("Function", "func", "example_function", "", 12),
    S("append_basic_block", "entry", "", "", 13),
    S("IRBuilder", "builder", "entry", "", 14) >>

\* jit_compile.py, lines 4-16: the same function, built for the JIT
JitCompileEmission == <<
    S("initialize", "", "llvm", "", 5),
    S("initialize", "", "native_target", "", 6),
    S("initialize", "", "native_asmprinter", "", 7),
    S("Module", "module", "example_module", "", 10),
    S("Function", "func", "example_function", "", 12),
    S("append_basic_block", "entry", "", "", 13),
    S("IRBuilder", "builder", "entry", "", 14),
    S("ret", "", "#42", "", 16) >>

\* jit_compile.py, lines 18-21
JitCompileLoad == <<
    S("str", "llvm_ir", "module", "", 19),
    S("parse_assembly", "mod", "llvm_ir", "", 20),
    S("verify", "", "mod", "", 21) >>

\* (the address asked of the engine before finalize_object)
JitCompileRunEarlyResolve == <<
    S("create_mcjit_compiler", "engine", "mod", "", 26),
    S("get_function_address", "func_ptr", "example_function", "", 30),
    S("finalize_object", "", "engine", "", 29),
    S("call", "result", "example_function", "func_ptr", 35),
    S("print", "", "result", "", 37) >>

\* jit_compile.py, lines 23-37
JitCompileRun == <<
    S("create_mcjit_compiler", "engine", "mod", "", 26),
    S("finalize_object", "", "engine", "", 29),
    S("get_function_address", "func_ptr", "example_function", "", 30),
    S("call", "result", "example_function", "func_ptr", 35),
    S("print", "", "result", "", 37) >>

JitCompileScript == JitCompileEmission \o JitCompileLoad \o JitCompileRun

\* optimize_ir.py, lines 4-40: complex_function
OptimizeIrEmission == <<
    S("initialize", "", "llvm", "", 5),
    S("initialize", "", "native_target", "", 6),
    S("initialize", "", "native_asmprinter", "", 7),
    S("Module", "module", "complex_module", "", 10),
    S("Function", "func", "complex_function", "", 12),
    S("append_basic_block", "entry", "", "", 13),
    S("IRBuilder", "builder", "entry", "", 14),
    S("alloca", "i", "", "", 18),
    S("store", "", "#0", "i", 19),
    S("alloca", "sum_val", "", "", 20),
    S("store", "", "#0", "sum_val", 21),
    S("append_basic_block", "loop", "", "", 23),
    S("append_basic_block", "after_loop", "", "", 24),
    S("branch", "", "loop", "", 26),
    S("position_at_end", "", "loop", "", 27),
    S("load", "current_i", "i", "", 29),
    S("load", "current_sum", "sum_val", "", 30),
    S("add", "next_i", "current_i", "#1", 31),
    S("add", "next_sum", "current_sum", "current_i", 32),
    S("store", "", "next_i", "i", 33),
    S("store", "", "next_sum", "sum_val", 34),
    S("icmp_slt", "cond", "next_i", "n", 36),
    S("cbranch", "cond", "loop", "after_loop", 36),
    S("position_at_end", "", "after_loop", "", 38),
    S("load", "result", "sum_val", "", 39),
    S("ret", "", "result", "", 40) >>

\* (the module parsed and never verified)
OptimizeIrLoadUnverified == <<
    S("str", "llvm_ir", "module", "", 43),
    S("parse_assembly", "mod", "llvm_ir", "", 44) >>

\* optimize_ir.py, lines 42-45
OptimizeIrLoad == <<
    S("str", "llvm_ir", "module", "", 43),
    S("parse_assembly", "mod", "llvm_ir", "", 44),
    S("verify", "", "mod", "", 45) >>

\* (the pass manager run after every registration)
OptimizeIrPassesEager == <<
    S("create_module_pass_manager", "pass_manager", "", "", 48),
    S("add_pass", "", "constant_merge", "", 49),
    S("run", "", "mod", "", 62),
    S("add_pass", "", "dead_arg_elimination", "", 50),
    S("run", "", "mod", "", 62),
    S("add_pass", "", "instruction_combining", "", 51),
    S("run", "", "mod", "", 62),
    S("add_pass", "", "cfg_simplification", "", 52),
    S("run", "", "mod", "", 62),
    S("add_pass", "", "loop_unroll", "", 53),
    S("run", "", "mod", "", 62),
    S("add_pass", "", "gvn", "", 54),
    S("run", "", "mod", "", 62),
    S("add_pass", "", "tail_call_elimination", "", 55),
    S("run", "", "mod", "", 62),
    S("add_pass", "", "function_inlining", "", 59),
    S("run", "", "mod", "", 62),
    S("print", "", "mod", "", 65) >>

\* optimize_ir.py, lines 47-65
OptimizeIrPasses == <<
    S("create_module_pass_manager", "pass_manager", "", "", 48),
    S("add_pass", "", "constant_merge", "", 49),
    S("add_pass", "", "dead_arg_elimination", "", 50),
    S("add_pass", "", "instruction_combining", "", 51),
    S("add_pass", "", "cfg_simplification", "", 52),
    S("add_pass", "", "loop_unroll", "", 53),
    S("add_pass", "", "gvn", "", 54),
    S("add_pass", "", "tail_call_elimination", "", 55),
    S("add_pass", "", "function_inlining", "", 59),
    S("run", "", "mod", "", 62),
    S("print", "", "mod", "", 65) >>

OptimizeIrScript == OptimizeIrEmission \o OptimizeIrLoad \o OptimizeIrPasses

\* linear_regression_ir.py, lines 5-83: linear_regression up to the sums
LinearRegressionSums == <<
    S("initialize", "", "llvm", "", 6),
    S("initialize", "", "native_target", "", 7),
    S("initialize", "", "native_asmprinter", "", 8),
    S("Module", "module", "linear_regression_module", "", 11),
    S("Function", "func", "linear_regression", "", 13),
    S("append_basic_block", "entry", "", "", 14),
    S("IRBuilder", "builder", "entry", "", 15),
    S("alloca", "sum_x", "", "", 23),
    S("alloca", "sum_y", "", "", 24),
    S("alloca", "sum_xx", "", "", 25),
    S("alloca", "sum_xy", "", "", 26),
    S("store", "", "#0", "sum_x", 28),
    S("store", "", "#0", "sum_y", 29),
    S("store", "", "#0", "sum_xx", 30),
    S("store", "", "#0", "sum_xy", 31),
    S("alloca", "i", "", "", 33),
    S("store", "", "#0", "i", 34),
    S("append_basic_block", "loop", "", "", 36),
    S("append_basic_block", "after_loop", "", "", 37),
    S("branch", "", "loop", "", 39),
    S("position_at_end", "", "loop", "", 40),
    S("load", "current_i", "i", "", 42),
    S("gep", "current_x_ptr", "x_ptr", "current_i", 43),
    S("gep", "current_y_ptr", "y_ptr", "current_i", 44),
    S("load", "current_x", "current_x_ptr", "", 45),
    S("load", "current_y", "current_y_ptr", "", 46),
    S("load", "sum_x_val", "sum_x", "", 48),
    S("load", "sum_y_val", "sum_y", "", 49),
    S("load", "sum_xx_val", "sum_xx", "", 50),
    S("load", "sum_xy_val", "sum_xy", "", 51),
    S("add", "next_sum_x", "sum_x_val", "current_x", 53),
    S("add", "next_sum_y", "sum_y_val", "current_y", 54),
    S("mul", "xx", "current_x", "current_x", 55),
    S("add", "next_sum_xx", "sum_xx_val", "xx", 55),
    S("mul", "xy", "current_x", "current_y", 56),
    S("add", "next_sum_xy", "sum_xy_val", "xy", 56),
    S("store", "", "next_sum_x", "sum_x", 58),
    S("store", "", "next_sum_y", "sum_y", 59),
    S("store", "", "next_sum_xx", "sum_xx", 60),
    S("store", "", "next_sum_xy", "sum_xy", 61),
    S("add", "next_i", "current_i", "#1", 63),
    S("store", "", "next_i", "i", 64),
    S("icmp_slt", "cond", "next_i", "n", 66),
    S("cbranch", "cond", "loop", "after_loop", 66),
    S("position_at_end", "", "after_loop", "", 68),
    S("load", "sum_x_val", "sum_x", "", 74),
    S("load", "sum_y_val", "sum_y", "", 75),
    S("load", "sum_xx_val", "sum_xx", "", 76),
    S("load", "sum_xy_val", "sum_xy", "", 77),
    S("sitofp", "n_val", "n", "", 79),
    S("sitofp", "sum_x_float", "sum_x_val", "", 80),
    S("sitofp", "sum_y_float", "sum_y_val", "", 81),
    S("sitofp", "sum_xx_float", "sum_xx_val", "", 82),
    S("sitofp", "sum_xy_float", "sum_xy_val", "", 83) >>

\* (the slope's division with its operands exchanged)
LinearRegressionCoefficientsSwapped == <<
    S("fmul", "n_sum_xy", "n_val", "sum_xy_float", 85),
    S("fmul", "sum_x_sum_y", "sum_x_float", "sum_y_float", 85),
    S("fsub", "numerator_m", "n_sum_xy", "sum_x_sum_y", 85),
    S("fmul", "n_sum_xx", "n_val", "sum_xx_float", 86),
    S("fmul", "sum_x_sum_x", "sum_x_float", "sum_x_float", 86),
    S("fsub", "denominator_m", "n_sum_xx", "sum_x_sum_x", 86),
    S("fdiv", "m", "denominator_m", "numerator_m", 87),
    S("fmul", "m_sum_x", "m", "sum_x_float", 89),
    S("fsub", "numerator_b", "sum_y_float", "m_sum_x", 89),
    S("fdiv", "b", "numerator_b", "n_val", 90) >>

\* linear_regression_ir.py, lines 70-90: m and b
LinearRegressionCoefficients == <<
    S("fmul", "n_sum_xy", "n_val", "sum_xy_float", 85),
    S("fmul", "sum_x_sum_y", "sum_x_float", "sum_y_float", 85),
    S("fsub", "numerator_m", "n_sum_xy", "sum_x_sum_y", 85),
    S("fmul", "n_sum_xx", "n_val", "sum_xx_float", 86),
    S("fmul", "sum_x_sum_x", "sum_x_float", "sum_x_float", 86),
    S("fsub", "denominator_m", "n_sum_xx", "sum_x_sum_x", 86),
    S("fdiv", "m", "numerator_m", "denominator_m", 87),
    S("fmul", "m_sum_x", "m", "sum_x_float", 89),
    S("fsub", "numerator_b", "sum_y_float", "m_sum_x", 89),
    S("fdiv", "b", "numerator_b", "n_val", 90) >>

\* linear_regression_ir.py, lines 92-104
LinearRegressionStore == <<
    S("GlobalVariable", "m_global", "m_value", "", 93),
    S("GlobalVariable", "b_global", "b_value", "", 96),
    S("store", "", "m", "m_global", 101),
    S("store", "", "b", "b_global", 102),
    S("ret_void", "", "", "", 104) >>

LinearRegressionEmission ==
    LinearRegressionSums \o LinearRegressionCoefficients
    \o LinearRegressionStore

\* linear_regression_ir.py, lines 106-112
LinearRegressionLoad == <<
    S("str", "llvm_ir", "module", "", 107),
    S("parse_assembly", "mod", "llvm_ir", "", 108),
    S("verify", "", "mod", "", 109),
    S("print", "", "mod", "", 112) >>

\* linear_regression_ir.py, lines 114-146
LinearRegressionRun == <<
    S("initialize", "", "all_targets", "", 115),
    S("initialize", "", "all_asmprinters", "", 116),
    S("create_mcjit_compiler", "engine", "mod", "", 119),
    S("finalize_object", "", "engine", "", 121),
    S("run_static_constructors", "", "engine", "", 122),
    S("get_function_address", "linear_regression_func_ptr",
      "linear_regression", "", 134),
    S("call", "", "linear_regression", "linear_regression_func_ptr", 136),
    S("get_global_value_address", "m_addr", "m_value", "", 139),
    S("get_global_value_address", "b_addr", "b_value", "", 140),
    S("contents", "m_value", "m_addr", "", 143),
    S("contents", "b_value", "b_addr", "", 144),
    S("print", "", "m_value", "", 146) >>

LinearRegressionScript ==
    LinearRegressionEmission \o LinearRegressionLoad \o LinearRegressionRun

\* The host data of linear_regression_ir.py, lines 125-127
x_values == << 1, 2, 3, 4, 5 >>
y_values == << 2, 4, 6, 8, 10 >>

(***************************************************************************)
(* Hosts that build a function exactly as its script does and then call it *)
(* the way jit_compile.py calls example_function, with any argument of a   *)
(* bounded set: the emitted function as a function of its arguments.       *)
(***************************************************************************)
ComplexFunctionHost ==
    OptimizeIrEmission \o OptimizeIrLoad \o <<
    S("create_mcjit_compiler", "engine", "mod", "", 12),
    S("finalize_object", "", "engine", "", 12),
    S("get_function_address", "func_ptr", "complex_function", "", 12),
    S("call", "result", "complex_function", "func_ptr", 17) >>

LinearRegressionHost ==
    LinearRegressionEmission \o LinearRegressionLoad \o <<
    S("create_mcjit_compiler", "engine", "mod", "", 119),
    S("finalize_object", "", "engine", "", 121),
    S("get_function_address", "linear_regression_func_ptr",
      "linear_regression", "", 134),
    S("call", "", "linear_regression", "linear_regression_func_ptr", 136),
    S("get_global_value_address", "m_addr", "m_value", "", 139),
    S("get_global_value_address", "b_addr", "b_value", "", 140),
    S("contents", "m_value", "m_addr", "", 143),
    S("contents", "b_value", "b_addr", "", 144) >>

\* validate_all.py: main(), lines 265-271
ValidateAllScript == <<
    S("ProjectValidator", "validator", "", "", 266),
    S("run_all_validations", "success", "validator", "", 267),
    S("sys_exit", "", "success", "", 268) >>

Scripts == { "generate_ir", "jit_compile", "optimize_ir",
             "linear_regression_ir", "validate_all" }
Hosts == { "complex_function", "linear_regression" }

Listing(s) ==
    CASE s = "generate_ir" -> GenerateIrScript
      [] s = "jit_compile" -> JitCompileScript
      [] s = "optimize_ir" -> OptimizeIrScript
      [] s = "linear_regression_ir" -> LinearRegressionScript
      [] s = "complex_function" -> ComplexFunctionHost
      [] s = "linear_regression" -> LinearRegressionHost
      [] s = "validate_all" -> ValidateAllScript

\* The add_*_pass methods optimize_ir.py calls on the pass manager.
PassNames == { OptimizeIrPasses[k].a :
               k \in { j \in 1..Len(OptimizeIrPasses) :
                       OptimizeIrPasses[j].op = "add_pass" } }

(***************************************************************************)
(* Bounds of the checked inputs.                                           *)
(***************************************************************************)
MaxN == 6      \* complex_function is stepped from its entry for |n| <= MaxN
TailLen == 3   \* iterations stepped at the end of a call with a large n
MaxLen == 3    \* longest arrays passed to linear_regression
XVals == { -1, 0, 2 }
YVals == { 0, 3 }
\* what a read outside the arrays, or of a slot never stored, may find
\* x arrays whose sums fit 32 bits while their products exceed 24 bits
WideXs == { << 2896, 2897 >>, << 3862, 3862, 3863 >> }
\* what the validator's surroundings may lack or hold
MaybeMissing == { "src/parser.py" }
MaybeAbsent == { "antlr4_python3_runtime" }
MaybeUnparsed == { "src/main.py" }
TotalLines == { <<>>, << 79 >>, << 100, 80 >> }
LineCounts == { 120 }
StrayVals == { -7, 0, 5 }

VARIABLES
    script,     \* the script (or host) being run
    pc,         \* the index of its next statement
    status,     \* "running", "raised", "crashed" or "exited"
    bmod,       \* the ir.Module under construction
    cursor,     \* the block the IRBuilder is positioned at the end of
    llvm_ir,    \* str(module)
    mod,        \* the module parse_assembly returned
    verified,   \* mod.verify() has returned without raising
    applied,    \* the passes that have run over mod, in order
    pm,         \* the passes registered on the pass manager
    available,  \* the passes the installed library provides
    engine,     \* "Unbuilt", "Compiled", "Finalized" or "Disposed"
    resolved,   \* the symbols whose address has been asked of the engine
    calls,      \* the number of native calls made
    host,       \* the Python variables holding addresses and results
    printed,    \* what the script has printed
    blk,        \* the block the native call executes, or "idle"/"returned"
    ip,         \* the index of its next instruction in blk
    env,        \* the values of the call's instructions and arguments
    mem,        \* the stack slots of the call and the module's globals
    xs, ys,     \* the host arrays passed to the call
    iters,      \* how many times the call has entered its loop block
    accesses,   \* the element addresses computed and loaded by the call
    retval,     \* the value the call returned
    at,         \* where the ProjectValidator is: "none", "ready", "loop",
                \* "summary" or "returned"
    step,       \* the index in validations of the next validation to run
    errors,     \* self.errors
    warnings,   \* self.warnings
    stats,      \* self.stats
    all_passed, \* the local all_passed of run_all_validations
    ran         \* the validations called so far, each with what it returned

vars == << script, pc, status, bmod, cursor, llvm_ir, mod, verified, applied,
           pm, available, engine, resolved, calls, host, printed, blk, ip,
           env, mem, xs, ys, iters, accesses, retval, at, step, errors,
           warnings, stats, all_passed, ran >>

buildVars == << bmod, cursor >>
loadVars == << llvm_ir, mod, verified, applied >>
passVars == << pm, available >>
engineVars == << engine, resolved, calls >>
callVars == << blk, ip, env, mem, xs, ys, iters, accesses, retval >>
validatorVars == << at, step, errors, warnings, stats, all_passed, ran >>
llvmVars == << buildVars, loadVars, passVars, engineVars, callVars >>

EmptyFn == [z \in {} |-> 0]
NoModule == [name |-> "", fname |-> "", order |-> <<>>, blocks |-> EmptyFn,
             globals |-> <<>>]

\* self.stats as __init__ sets it
NoStats == [files_checked |-> 0, tests_run |-> 0, lines_of_code |-> 0,
            test_coverage |-> 0]

Init ==
    /\ script \in Scripts \cup Hosts
    /\ pc = 1
    /\ status = "running"
    /\ bmod = NoModule
    /\ cursor = ""
    /\ llvm_ir = <<>>
    /\ mod = NoModule
    /\ verified = FALSE
    /\ applied = <<>>
    /\ pm = <<>>
    /\ available \in { PassNames } \cup
           (IF script = "optimize_ir"
            THEN { PassNames \ {p} : p \in PassNames } ELSE {})
    /\ engine = "Unbuilt"
    /\ resolved = {}
    /\ calls = 0
    /\ host = EmptyFn
    /\ printed = <<>>
    /\ blk = "idle"
    /\ ip = 1
    /\ env = EmptyFn
    /\ mem = EmptyFn
    /\ xs = <<>>
    /\ ys = <<>>
    /\ iters = 0
    /\ accesses = <<>>
    /\ retval = 0
    /\ at = "none"
    /\ step = 1
    /\ errors = <<>>
    /\ warnings = <<>>
    /\ stats = NoStats
    /\ all_passed = TRUE
    /\ ran = <<>>

(***************************************************************************)
(* Building the IR: ir.Module, ir.Function and the IRBuilder.              *)
(***************************************************************************)
InstrOps == { "alloca", "store", "load", "add", "mul", "gep", "icmp_slt",
              "sitofp", "fmul", "fsub", "fdiv" }
TermOps == { "branch", "cbranch", "ret", "ret_void" }

IsTerminator(ins) == ins.op \in TermOps

Running == status = "running" /\ blk = "idle" /\ pc <= Len(Listing(script))
Cur == Listing(script)[pc]

\* llvm.initialize(), llvm.initialize_native_target(), ...
Initialize ==
    /\ Running /\ Cur.op = "initialize"
    /\ pc' = pc + 1
    /\ UNCHANGED << validatorVars,
                    script, status, buildVars, loadVars, passVars,
                    engineVars, host, printed, callVars >>

\* module = ir.Module(name=...)
NewModule ==
    /\ Running /\ Cur.op = "Module"
    /\ bmod' = [NoModule EXCEPT !.name = Cur.a]
    /\ pc' = pc + 1
    /\ UNCHANGED << validatorVars,
                    script, status, cursor, loadVars, passVars, engineVars,
                    host, printed, callVars >>

\* func = ir.Function(module, func_type, name=...)
NewFunction ==
    /\ Running /\ Cur.op = "Function"
    /\ bmod' = [bmod EXCEPT !.fname = Cur.a]
    /\ pc' = pc + 1
    /\ UNCHANGED << validatorVars,
                    script, status, cursor, loadVars, passVars, engineVars,
                    host, printed, callVars >>

\* func.append_basic_block(name=...)
AppendBasicBlock ==
    /\ Running /\ Cur.op = "append_basic_block"
    /\ bmod' = [bmod EXCEPT !.order = Append(@, Cur.dst),
                            !.blocks = (Cur.dst :> <<>>) @@ @]
    /\ pc' = pc + 1
    /\ UNCHANGED << validatorVars,
                    script, status, cursor, loadVars, passVars, engineVars,
                    host, printed, callVars >>

\* builder = ir.IRBuilder(entry_block)
NewBuilder ==
    /\ Running /\ Cur.op = "IRBuilder"
    /\ cursor' = Cur.a
    /\ pc' = pc + 1
    /\ UNCHANGED << validatorVars,
                    script, status, bmod, loadVars, passVars, engineVars,
                    host, printed, callVars >>

\* (a position_at_end that leaves the builder where it was)
PositionAtEndStale ==
    /\ Running /\ Cur.op = "position_at_end"
    /\ cursor' = cursor
    /\ pc' = pc + 1
    /\ UNCHANGED << validatorVars,
                    script, status, bmod, loadVars, passVars, engineVars,
                    host, printed, callVars >>

\* builder.position_at_end(block)
PositionAtEnd ==
    /\ Running /\ Cur.op = "position_at_end"
    /\ cursor' = Cur.a
    /\ pc' = pc + 1
    /\ UNCHANGED << validatorVars,
                    script, status, bmod, loadVars, passVars, engineVars,
                    host, printed, callVars >>

\* builder.alloca/store/load/add/mul/gep/icmp_signed/sitofp/fmul/fsub/fdiv:
\* the instruction is appended to the block the builder is positioned at.
Emit ==
    /\ Running /\ Cur.op \in InstrOps
    /\ bmod' = [bmod EXCEPT !.blocks[cursor] = Append(@, Cur)]
    /\ pc' = pc + 1
    /\ UNCHANGED << validatorVars,
                    script, status, cursor, loadVars, passVars, engineVars,
                    host, printed, callVars >>

\* builder.branch/cbranch/ret/ret_void
EmitTerminator ==
    /\ Running /\ Cur.op \in TermOps
    /\ bmod' = [bmod EXCEPT !.blocks[cursor] = Append(@, Cur)]
    /\ pc' = pc + 1
    /\ UNCHANGED << validatorVars,
                    script, status, cursor, loadVars, passVars, engineVars,
                    host, printed, callVars >>

\* ir.GlobalVariable(module, ir.FloatType(), name=...), initializer 0.0
NewGlobal ==
    /\ Running /\ Cur.op = "GlobalVariable"
    /\ bmod' = [bmod EXCEPT
                  !.globals = Append(@, [py |-> Cur.dst, sym |-> Cur.a])]
    /\ pc' = pc + 1
    /\ UNCHANGED << validatorVars,
                    script, status, cursor, loadVars, passVars, engineVars,
                    host, printed, callVars >>

\* print(...)
PrintIt ==
    /\ Running /\ Cur.op = "print"
    /\ printed' = Append(printed, Cur.a)
    /\ pc' = pc + 1
    /\ UNCHANGED << validatorVars,
                    script, status, buildVars, loadVars, passVars,
                    engineVars, host, callVars >>

(***************************************************************************)
(* str(module), llvm.parse_assembly and mod.verify().                      *)
(***************************************************************************)
RECURSIVE BlocksText(_, _)
BlocksText(m, k) ==
    IF k > Len(m.order) THEN <<>>
    ELSE << S("label", m.order[k], "", "", 0) >> \o m.blocks[m.order[k]]
         \o BlocksText(m, k + 1)

\* str(module): the globals, then the function with its blocks in the order
\* they were appended, each a label followed by its instructions.
Serialize(m) ==
    << S("module", "", m.name, "", 0) >>
    \o [k \in 1..Len(m.globals) |->
          S("global", m.globals[k].py, m.globals[k].sym, "", 0)]
    \o << S("define", "", m.fname, "", 0) >>
    \o BlocksText(m, 1)

Lines(text, op) == { j \in 1..Len(text) : text[j].op = op }

\* the k-th smallest element of the set of indices I
Nth(I, k) == CHOOSE j \in I : Cardinality({ h \in I : h < j }) = k - 1

\* llvm.parse_assembly(llvm_ir): a block is the instructions from its label
\* to the next label.
ParseAssembly(text) ==
    LET labels  == Lines(text, "label")
        globs   == Lines(text, "global")
        order   == [k \in 1..Cardinality(labels) |-> text[Nth(labels, k)].dst]
        endOf(j) == IF \E h \in labels : h > j
                    THEN (CHOOSE h \in labels :
                            h > j /\ \A g \in labels : g > j => h <= g) - 1
                    ELSE Len(text)
    IN  [name   |-> text[Nth(Lines(text, "module"), 1)].a,
         fname  |-> text[Nth(Lines(text, "define"), 1)].a,
         order  |-> order,
         blocks |-> [b \in { text[j].dst : j \in labels } |->
                       LET j == CHOOSE h \in labels : text[h].dst = b
                       IN  SubSeq(text, j + 1, endOf(j))],
         globals |-> [k \in 1..Cardinality(globs) |->
                        [py  |-> text[Nth(globs, k)].dst,
                         sym |-> text[Nth(globs, k)].a]]]

Targets(ins) ==
    CASE ins.op = "branch" -> { ins.a }
      [] ins.op = "cbranch" -> { ins.a, ins.b }
      [] OTHER -> {}

\* What mod.verify() accepts: every block ends in a terminator, its only
\* one; every branch goes to a block of the function, never to the entry.
WellFormed(m) ==
    /\ Len(m.order) >= 1
    /\ \A b \in DOMAIN m.blocks :
          /\ Len(m.blocks[b]) >= 1
          /\ \A j \in 1..Len(m.blocks[b]) :
                /\ IsTerminator(m.blocks[b][j]) <=> j = Len(m.blocks[b])
                /\ Targets(m.blocks[b][j]) \subseteq
                       DOMAIN m.blocks \ { m.order[1] }

\* llvm_ir = str(module)
Str ==
    /\ Running /\ Cur.op = "str"
    /\ llvm_ir' = Serialize(bmod)
    /\ pc' = pc + 1
    /\ UNCHANGED << validatorVars,
                    script, status, buildVars, mod, verified, applied,
                    passVars, engineVars, host, printed, callVars >>

\* mod = llvm.parse_assembly(llvm_ir)
Parse ==
    /\ Running /\ Cur.op = "parse_assembly"
    /\ mod' = ParseAssembly(llvm_ir)
    /\ verified' = FALSE
    /\ applied' = <<>>
    /\ pc' = pc + 1
    /\ UNCHANGED << validatorVars,
                    script, status, buildVars, llvm_ir, passVars,
                    engineVars, host, printed, callVars >>

\* mod.verify(): raises on a malformed module, which ends the script.
Verify ==
    /\ Running /\ Cur.op = "verify"
    /\ IF WellFormed(mod)
       THEN verified' = TRUE /\ pc' = pc + 1 /\ status' = status
       ELSE verified' = verified /\ pc' = pc /\ status' = "raised"
    /\ UNCHANGED << validatorVars,
                    script, buildVars, llvm_ir, mod, applied, passVars,
                    engineVars, host, printed, callVars >>

(***************************************************************************)
(* The pass manager of optimize_ir.py.                                     *)
(***************************************************************************)
\* pass_manager = llvm.create_module_pass_manager()
CreatePassManager ==
    /\ Running /\ Cur.op = "create_module_pass_manager"
    /\ pm' = <<>>
    /\ pc' = pc + 1
    /\ UNCHANGED << validatorVars,
                    script, status, buildVars, loadVars, available,
                    engineVars, host, printed, callVars >>

\* pass_manager.add_<name>_pass(): registers the pass; a pass the library
\* does not provide raises, which ends the script.
AddPass ==
    /\ Running /\ Cur.op = "add_pass"
    /\ IF Cur.a \in available
       THEN pm' = Append(pm, Cur.a) /\ pc' = pc + 1 /\ status' = status
       ELSE pm' = pm /\ pc' = pc /\ status' = "raised"
    /\ UNCHANGED << validatorVars,
                    script, buildVars, loadVars, available, engineVars,
                    host, printed, callVars >>

\* pass_manager.run(mod): the registered passes run over mod, in order.
RunPasses ==
    /\ Running /\ Cur.op = "run"
    /\ applied' = applied \o pm
    /\ pc' = pc + 1
    /\ UNCHANGED << validatorVars,
                    script, status, buildVars, llvm_ir, mod, verified,
                    passVars, engineVars, host, printed, callVars >>

(***************************************************************************)
(* The execution engine and the host's calls into it.                      *)
(***************************************************************************)
Ptr(base, idx) == [base |-> base, idx |-> idx]

\* engine = llvm.create_mcjit_compiler(mod, target_machine)
CreateEngine ==
    /\ Running /\ Cur.op = "create_mcjit_compiler"
    /\ engine' = "Compiled"
    /\ pc' = pc + 1
    /\ UNCHANGED << validatorVars,
                    script, status, buildVars, loadVars, passVars, resolved,
                    calls, host, printed, callVars >>

\* engine.finalize_object(): the code is resident and the module's globals
\* hold their initializer, 0.0.
FinalizeObject ==
    /\ Running /\ Cur.op = "finalize_object"
    /\ engine' = "Finalized"
    /\ mem' = [g \in { mod.globals[k].sym : k \in 1..Len(mod.globals) } |->
                 FZero(0)]
    /\ pc' = pc + 1
    /\ UNCHANGED << validatorVars,
                    script, status, buildVars, loadVars, passVars, resolved,
                    calls, host, printed, blk, ip, env, xs, ys, iters,
                    accesses, retval >>

\* engine.run_static_constructors(): the modules have none.
RunStaticConstructors ==
    /\ Running /\ Cur.op = "run_static_constructors"
    /\ pc' = pc + 1
    /\ UNCHANGED << validatorVars,
                    script, status, buildVars, loadVars, passVars,
                    engineVars, host, printed, callVars >>

\* engine.get_function_address(name): 0 ("null") for an unknown name.
GetFunctionAddress ==
    /\ Running /\ Cur.op = "get_function_address"
    /\ resolved' = resolved \cup { Cur.a }
    /\ host' = (Cur.dst :> IF Cur.a = mod.fname THEN Cur.a ELSE "null") @@ host
    /\ pc' = pc + 1
    /\ UNCHANGED << validatorVars,
                    script, status, buildVars, loadVars, passVars, engine,
                    calls, printed, callVars >>

\* engine.get_global_value_address(name)
GetGlobalValueAddress ==
    /\ Running /\ Cur.op = "get_global_value_address"
    /\ resolved' = resolved \cup { Cur.a }
    /\ host' = (Cur.dst :> IF Cur.a \in DOMAIN mem THEN Cur.a ELSE "null")
               @@ host
    /\ pc' = pc + 1
    /\ UNCHANGED << validatorVars,
                    script, status, buildVars, loadVars, passVars, engine,
                    calls, printed, callVars >>

\* ctypes.cast(addr, POINTER(c_float)).contents.value
Contents ==
    /\ Running /\ Cur.op = "contents"
    /\ IF host[Cur.a] = "null"
       THEN host' = host /\ pc' = pc /\ status' = "crashed"
       ELSE host' = (Cur.dst :> mem[host[Cur.a]]) @@ host
            /\ pc' = pc + 1 /\ status' = status
    /\ UNCHANGED << validatorVars,
                    script, buildVars, loadVars, passVars, engineVars,
                    printed, callVars >>

\* The arguments a script passes to the function it calls; a host passes
\* any argument of the bounded sets, with arrays of the length it passes.
CallArgs(s) ==
    CASE s = "jit_compile" -> { [n |-> 0, xs |-> <<>>, ys |-> <<>>] }
      [] s = "linear_regression_ir" ->
           { [n |-> Len(x_values), xs |-> x_values, ys |-> y_values] }
      [] s = "complex_function" ->
           { [n |-> k, xs |-> <<>>, ys |-> <<>>] :
               k \in (-MaxN..MaxN) \cup { IntMin } }
      [] s = "linear_regression" ->
           UNION { { [n |-> k, xs |-> u, ys |-> v] :
                       u \in [1..(IF k > 0 THEN k ELSE 0) -> XVals],
                       v \in [1..(IF k > 0 THEN k ELSE 0) -> YVals] } :
                   k \in -1..MaxLen }
           \cup { [n |-> Len(u), xs |-> u, ys |-> [j \in 1..Len(u) |-> 0]] :
                    u \in WideXs }
      [] OTHER -> {}

\* func.args, and the module's globals, as the call's first values
ArgEnv(m, args) ==
    LET gptrs == [py \in { m.globals[k].py : k \in 1..Len(m.globals) } |->
                    Ptr(m.globals[CHOOSE k \in 1..Len(m.globals) :
                                    m.globals[k].py = py].sym, 0)]
    IN  CASE m.fname = "complex_function" -> ("n" :> args.n) @@ gptrs
          [] m.fname = "linear_regression" ->
               ("x_ptr" :> Ptr("x_array", 0)) @@ ("y_ptr" :> Ptr("y_array", 0))
               @@ ("n" :> args.n) @@ gptrs
          [] OTHER -> gptrs

\* cfunc(...): control passes to the compiled function's entry block.
CallFunction ==
    /\ Running /\ Cur.op = "call"
    /\ IF host[Cur.b] = "null"
       THEN /\ status' = "crashed"
            /\ UNCHANGED << calls, callVars >>
       ELSE /\ \E args \in CallArgs(script) :
                 /\ env' = ArgEnv(mod, args)
                 /\ xs' = args.xs
                 /\ ys' = args.ys
            /\ blk' = mod.order[1]
            /\ ip' = 1
            /\ iters' = 0
            /\ accesses' = <<>>
            /\ calls' = calls + 1
            /\ status' = status
            /\ UNCHANGED << mem, retval >>
    /\ UNCHANGED << validatorVars,
                    script, pc, buildVars, loadVars, passVars, engine,
                    resolved, host, printed >>

\* n (n - 1) / 2 modulo 2^32: one of n and n - 1 is even.
SumBelowMod(n) ==
    IF n % 2 = 0 THEN Mul32(n \div 2, n - 1) ELSE Mul32(n, (n - 1) \div 2)

\* arguments of complex_function too large to step through from the entry
FarN == { 65537, 92683, IntMax - 1, IntMax }

\* The call complex_function(n) for a large n, joined where its loop block
\* is entered with i = n - TailLen: i and sum hold what n - TailLen
\* iterations of lines 29-34 leave in them, and the values of the loop block
\* are those of the iteration before.
CallFunctionFar ==
    /\ Running /\ Cur.op = "call" /\ script = "complex_function"
    /\ host[Cur.b] # "null"
    /\ \E n \in FarN :
          LET k == n - TailLen IN
          /\ env' = ("i" :> Ptr("i", 0)) @@ ("sum_val" :> Ptr("sum_val", 0))
                    @@ ("current_i" :> k - 1)
                    @@ ("current_sum" :> SumBelowMod(k - 1))
                    @@ ("next_i" :> k) @@ ("next_sum" :> SumBelowMod(k))
                    @@ ("cond" :> TRUE)
                    @@ ArgEnv(mod, [n |-> n, xs |-> <<>>, ys |-> <<>>])
          /\ mem' = ("i" :> k) @@ ("sum_val" :> SumBelowMod(k)) @@ mem
          /\ iters' = k + 1
    /\ blk' = "loop"
    /\ ip' = 1
    /\ calls' = calls + 1
    /\ UNCHANGED << validatorVars,
                    script, pc, status, buildVars, loadVars, passVars,
                    engine, resolved, host, printed, xs, ys, accesses,
                    retval >>

\* The call returns: the host binds its result and goes on.
ReturnToHost ==
    /\ status = "running" /\ blk = "returned"
    /\ host' = IF Cur.dst = "" THEN host ELSE (Cur.dst :> retval) @@ host
    /\ blk' = "idle"
    /\ pc' = pc + 1
    /\ UNCHANGED << validatorVars,
                    script, status, buildVars, loadVars, passVars,
                    engineVars, printed, ip, env, mem, xs, ys, iters,
                    accesses, retval >>

\* The script's last statement is done: the process exits, and the engine
\* goes with it.
Exit ==
    /\ status = "running" /\ blk = "idle" /\ pc = Len(Listing(script)) + 1
    /\ status' = "exited"
    /\ engine' = IF engine = "Unbuilt" THEN engine ELSE "Disposed"
    /\ UNCHANGED << validatorVars,
                    script, pc, buildVars, loadVars, passVars, resolved,
                    calls, host, printed, callVars >>

(***************************************************************************)
(* The compiled function, one instruction of the emitted IR per step.      *)
(***************************************************************************)
Executing == status = "running" /\ blk \in DOMAIN mod.blocks
                /\ ip <= Len(mod.blocks[blk])
Ins == mod.blocks[blk][ip]

\* the value of an operand
Val(x) == IF x \in DOMAIN ConstOf THEN ConstOf[x] ELSE env[x]

Bind(name, v) == (name :> v) @@ env

Arrays == { "x_array", "y_array" }
ArrayOf(base) == IF base = "x_array" THEN xs ELSE ys

InBounds(p) == p.idx >= 0 /\ p.idx < Len(ArrayOf(p.base))

\* What a load through p may yield: the element or the slot's content; any
\* value for an element outside its array or a slot never stored.
Loadable(p) ==
    IF p.base \in Arrays
    THEN (IF InBounds(p) THEN { ArrayOf(p.base)[p.idx + 1] } ELSE StrayVals)
    ELSE (IF p.base \in DOMAIN mem THEN { mem[p.base] } ELSE StrayVals)

Log(kind, p) == Append(accesses, << kind, p.base, p.idx >>)

\* alloca: a stack slot of the call
ExecAlloca ==
    /\ Executing /\ Ins.op = "alloca"
    /\ env' = Bind(Ins.dst, Ptr(Ins.dst, 0))
    /\ ip' = ip + 1
    /\ UNCHANGED << validatorVars,
                    script, pc, status, buildVars, loadVars, passVars,
                    engineVars, host, printed, blk, mem, xs, ys, iters,
                    accesses, retval >>

\* store value, ptr
ExecStore ==
    /\ Executing /\ Ins.op = "store"
    /\ mem' = (Val(Ins.b).base :> Val(Ins.a)) @@ mem
    /\ ip' = ip + 1
    /\ UNCHANGED << validatorVars,
                    script, pc, status, buildVars, loadVars, passVars,
                    engineVars, host, printed, blk, env, xs, ys, iters,
                    accesses, retval >>

\* load ptr
ExecLoad ==
    /\ Executing /\ Ins.op = "load"
    /\ \E v \in Loadable(Val(Ins.a)) : env' = Bind(Ins.dst, v)
    /\ accesses' = IF Val(Ins.a).base \in Arrays
                   THEN Log("load", Val(Ins.a)) ELSE accesses
    /\ ip' = ip + 1
    /\ UNCHANGED << validatorVars,
                    script, pc, status, buildVars, loadVars, passVars,
                    engineVars, host, printed, blk, mem, xs, ys, iters,
                    retval >>

\* a load outside the host's arrays may instead fault, which kills the
\* host process
ExecLoadFault ==
    /\ Executing /\ Ins.op = "load"
    /\ Val(Ins.a).base \in Arrays /\ ~InBounds(Val(Ins.a))
    /\ accesses' = Log("load", Val(Ins.a))
    /\ status' = "crashed"
    /\ UNCHANGED << validatorVars,
                    script, pc, buildVars, loadVars, passVars, engineVars,
                    host, printed, blk, ip, env, mem, xs, ys, iters,
                    retval >>

\* (an element address one element too far)
ExecGepOffByOne ==
    /\ Executing /\ Ins.op = "gep"
    /\ LET p == Ptr(Val(Ins.a).base, Val(Ins.a).idx + Val(Ins.b) + 1)
       IN  env' = Bind(Ins.dst, p) /\ accesses' = Log("gep", p)
    /\ ip' = ip + 1
    /\ UNCHANGED << validatorVars,
                    script, pc, status, buildVars, loadVars, passVars,
                    engineVars, host, printed, blk, mem, xs, ys, iters,
                    retval >>

\* gep ptr, [index]: the address of element index of ptr
ExecGep ==
    /\ Executing /\ Ins.op = "gep"
    /\ LET p == Ptr(Val(Ins.a).base, Val(Ins.a).idx + Val(Ins.b))
       IN  env' = Bind(Ins.dst, p) /\ accesses' = Log("gep", p)
    /\ ip' = ip + 1
    /\ UNCHANGED << validatorVars,
                    script, pc, status, buildVars, loadVars, passVars,
                    engineVars, host, printed, blk, mem, xs, ys, iters,
                    retval >>

\* add, mul and icmp_signed('<') on i32
ExecInt ==
    /\ Executing /\ Ins.op \in { "add", "mul", "icmp_slt" }
    /\ env' = Bind(Ins.dst,
                   CASE Ins.op = "add" -> Add32(Val(Ins.a), Val(Ins.b))
                     [] Ins.op = "mul" -> Mul32(Val(Ins.a), Val(Ins.b))
                     [] Ins.op = "icmp_slt" -> ICmpSLT(Val(Ins.a), Val(Ins.b)))
    /\ ip' = ip + 1
    /\ UNCHANGED << validatorVars,
                    script, pc, status, buildVars, loadVars, passVars,
                    engineVars, host, printed, blk, mem, xs, ys, iters,
                    accesses, retval >>

\* sitofp, fmul, fsub and fdiv on float
ExecFloat ==
    /\ Executing /\ Ins.op \in { "sitofp", "fmul", "fsub", "fdiv" }
    /\ env' = Bind(Ins.dst,
                   CASE Ins.op = "sitofp" -> SIToFP(Val(Ins.a))
                     [] Ins.op = "fmul" -> FMul(Val(Ins.a), Val(Ins.b))
                     [] Ins.op = "fsub" -> FSub(Val(Ins.a), Val(Ins.b))
                     [] Ins.op = "fdiv" -> FDiv(Val(Ins.a), Val(Ins.b)))
    /\ ip' = ip + 1
    /\ UNCHANGED << validatorVars,
                    script, pc, status, buildVars, loadVars, passVars,
                    engineVars, host, printed, blk, mem, xs, ys, iters,
                    accesses, retval >>

\* control passes to the first instruction of block b
Enter(b) ==
    /\ blk' = b
    /\ ip' = 1
    /\ iters' = IF b = "loop" THEN iters + 1 ELSE iters

\* br label
ExecBranch ==
    /\ Executing /\ Ins.op = "branch"
    /\ Enter(Ins.a)
    /\ UNCHANGED << validatorVars,
                    script, pc, status, buildVars, loadVars, passVars,
                    engineVars, host, printed, env, mem, xs, ys, accesses,
                    retval >>

\* (a conditional branch with its targets exchanged)
ExecCBranchInverted ==
    /\ Executing /\ Ins.op = "cbranch"
    /\ Enter(IF env[Ins.dst] THEN Ins.b ELSE Ins.a)
    /\ UNCHANGED << validatorVars,
                    script, pc, status, buildVars, loadVars, passVars,
                    engineVars, host, printed, env, mem, xs, ys, accesses,
                    retval >>

\* br cond, label, label
ExecCBranch ==
    /\ Executing /\ Ins.op = "cbranch"
    /\ Enter(IF env[Ins.dst] THEN Ins.a ELSE Ins.b)
    /\ UNCHANGED << validatorVars,
                    script, pc, status, buildVars, loadVars, passVars,
                    engineVars, host, printed, env, mem, xs, ys, accesses,
                    retval >>

\* ret value, ret void
ExecRet ==
    /\ Executing /\ Ins.op \in { "ret", "ret_void" }
    /\ retval' = IF Ins.op = "ret" THEN Val(Ins.a) ELSE retval
    /\ blk' = "returned"
    /\ UNCHANGED << validatorVars,
                    script, pc, status, buildVars, loadVars, passVars,
                    engineVars, host, printed, ip, env, mem, xs, ys, iters,
                    accesses >>

(***************************************************************************)
(* validate_all.py: ProjectValidator.  The file system, the tools run as   *)
(* subprocesses and the import system answer as they please.               *)
(***************************************************************************)
\* run_all_validations, lines 225-232
validations == << "validate_structure", "validate_code_style",
                  "validate_dependencies", "validate_grammar",
                  "run_tests_with_coverage", "validate_imports" >>

required_files == <<
    "setup.py", "requirements.txt", "grammar/matangi_grammar.g4",
    "src/__init__.py", "src/main.py", "src/parser.py", "src/interpreter.py",
    "src/semantic_analyzer.py", "src/cli.py", "src/matangi_ast.py",
    "test/__init__.py", "test/conftest.py", "test/test_parser.py",
    "test/test_semantic.py", "test/test_interpreter.py" >>

required_packages == <<
    "antlr4-python3-runtime==4.13.2", "pytest>=7.0.0", "black", "flake8",
    "mypy", "pytest-cov" >>

\* package.split('==')[0].split('>=')[0] with '-' replaced by '_'
ModuleName ==
    ("antlr4-python3-runtime==4.13.2" :> "antlr4_python3_runtime")
    @@ ("pytest>=7.0.0" :> "pytest") @@ ("black" :> "black")
    @@ ("flake8" :> "flake8") @@ ("mypy" :> "mypy")
    @@ ("pytest-cov" :> "pytest_cov")

\* the style tools in the order validate_code_style runs them, each with
\* the warning its nonzero return code adds
StyleTools == << "black", "flake8", "mypy" >>
StyleWarning ==
    ("black" :> "Code formatting doesn't match black style")
    @@ ("flake8" :> "Code has style issues (flake8)")
    @@ ("mypy" :> "Type checking issues found (mypy)")

\* if self.stats["test_coverage"] < 80
LowCoverage == 80

Range(u) == { u[j] : j \in 1..Len(u) }
Position(u, x) == CHOOSE j \in 1..Len(u) : u[j] = x

\* an entry of self.errors or self.warnings: the message's fixed text and
\* the names formatted into it
Message(text, names) == [text |-> text, names |-> names]

InRunAll == Running /\ Cur.op = "run_all_validations" /\ at = "loop"

Calling(name) ==
    InRunAll /\ step <= Len(validations) /\ validations[step] = name

\* if not validation(): all_passed = False -- and on to the next one
Returned(name, ok) ==
    /\ all_passed' = IF ok THEN all_passed ELSE FALSE
    /\ ran' = Append(ran, << name, ok >>)
    /\ step' = step + 1

\* an exception leaves the validation and run_all_validations, which
\* catches none
Raised ==
    /\ status' = "raised"
    /\ UNCHANGED << pc, at, step, all_passed, ran, host, printed >>

\* validator = ProjectValidator()
NewProjectValidator ==
    /\ Running /\ Cur.op = "ProjectValidator"
    /\ at' = "ready"
    /\ errors' = <<>> /\ warnings' = <<>> /\ stats' = NoStats
    /\ pc' = pc + 1
    /\ UNCHANGED << script, status, llvmVars, host, printed, step,
                    all_passed, ran >>

\* validator.run_all_validations() is entered: all_passed = True
RunAllValidations ==
    /\ Running /\ Cur.op = "run_all_validations" /\ at = "ready"
    /\ at' = "loop" /\ step' = 1 /\ all_passed' = TRUE /\ ran' = <<>>
    /\ printed' = Append(printed, "Starting comprehensive validation...")
    /\ UNCHANGED << script, pc, status, llvmVars, host, errors, warnings,
                    stats >>

\* validate_structure: some of the files that may be absent are
ValidateStructure ==
    /\ Calling("validate_structure")
    /\ \E missing \in SUBSET MaybeMissing :
          /\ stats' = [stats EXCEPT !.files_checked =
                          @ + Len(required_files) - Cardinality(missing)]
          /\ errors' = IF missing # {}
                       THEN Append(errors, Message("Missing files", missing))
                       ELSE errors
          /\ Returned("validate_structure", missing = {})
    /\ UNCHANGED << script, pc, status, llvmVars, host, printed, at,
                    warnings >>

\* the first tool that cannot be started, or one past the last tool
Stopped(o) ==
    IF \E j \in 1..Len(StyleTools) :
            o[StyleTools[j]] \in { "not_found", "os_error" }
    THEN CHOOSE j \in 1..Len(StyleTools) :
            /\ o[StyleTools[j]] \in { "not_found", "os_error" }
            /\ \A h \in 1..(j - 1) : o[StyleTools[h]] \in { "ok", "issues" }
    ELSE Len(StyleTools) + 1

\* validate_code_style: each tool returns 0 or not, or cannot be started;
\* only FileNotFoundError is caught
ValidateCodeStyle ==
    /\ Calling("validate_code_style")
    /\ \E o \in [Range(StyleTools) ->
                    { "ok", "issues", "not_found", "os_error" }] :
          LET k == Stopped(o)
              found == SelectSeq(StyleTools,
                          LAMBDA t : Position(StyleTools, t) < k
                                     /\ o[t] = "issues")
              issued == [j \in 1..Len(found) |->
                            Message(StyleWarning[found[j]], {})]
          IN  IF k <= Len(StyleTools) /\ o[StyleTools[k]] = "os_error"
              THEN /\ warnings' = warnings \o issued
                   /\ Raised
              ELSE /\ warnings' =
                          IF k <= Len(StyleTools)
                          THEN Append(warnings \o issued,
                                      Message("Style checking tools not "
                                              \o "installed", {}))
                          ELSE warnings \o issued
                   /\ Returned("validate_code_style", TRUE)
                   /\ UNCHANGED << pc, status, at, host, printed >>
    /\ UNCHANGED << script, llvmVars, errors, stats >>

\* validate_dependencies: import_module of each package's module succeeds,
\* raises ImportError, or raises something else, which is not caught
ValidateDependencies ==
    /\ Calling("validate_dependencies")
    /\ \E o \in [MaybeAbsent -> { "ok", "ImportError", "error" }] :
          LET outcome(p) == IF ModuleName[p] \in MaybeAbsent
                            THEN o[ModuleName[p]] ELSE "ok"
              missing_packages ==
                  SelectSeq(required_packages,
                            LAMBDA p : outcome(p) = "ImportError")
          IN  IF \E p \in Range(required_packages) : outcome(p) = "error"
              THEN /\ errors' = errors
                   /\ Raised
              ELSE /\ errors' =
                          IF missing_packages # <<>>
                          THEN Append(errors,
                                      Message("Missing packages",
                                              Range(missing_packages)))
                          ELSE errors
                   /\ Returned("validate_dependencies",
                               missing_packages = <<>>)
                   /\ UNCHANGED << pc, status, at, host, printed >>
    /\ UNCHANGED << script, llvmVars, warnings, stats >>

\* (validate_grammar returning False without an entry in self.errors)
ValidateGrammarSilent ==
    /\ Calling("validate_grammar")
    /\ \E r \in { "zero", "nonzero", "exception" } :
          Returned("validate_grammar", r = "zero")
    /\ UNCHANGED << script, pc, status, llvmVars, host, printed, at, errors,
                    warnings, stats >>

\* validate_grammar: antlr returns 0 or not, or running it raises
ValidateGrammar ==
    /\ Calling("validate_grammar")
    /\ \E r \in { "zero", "nonzero", "exception" } :
          /\ errors' =
                CASE r = "zero" -> errors
                  [] r = "nonzero" ->
                       Append(errors, Message("Grammar validation failed", {}))
                  [] r = "exception" ->
                       Append(errors, Message("Grammar validation error", {}))
          /\ Returned("validate_grammar", r = "zero")
    /\ UNCHANGED << script, pc, status, llvmVars, host, printed, at,
                    warnings, stats >>

\* run_tests_with_coverage: running pytest raises, or it returns 0 or not
\* with the coverage its TOTAL lines report, the last one counting
RunTestsWithCoverage ==
    /\ Calling("run_tests_with_coverage")
    /\ \E r \in { "zero", "nonzero", "exception" }, total \in TotalLines :
          LET coverage == IF r = "exception" \/ total = <<>>
                          THEN stats.test_coverage
                          ELSE total[Len(total)]
          IN  /\ stats' = [stats EXCEPT !.test_coverage = coverage]
              /\ errors' =
                    CASE r = "zero" -> errors
                      [] r = "nonzero" ->
                           Append(errors, Message("Some tests failed", {}))
                      [] r = "exception" ->
                           Append(errors, Message("Error running tests", {}))
              /\ warnings' =
                    IF r = "zero" /\ coverage < LowCoverage
                    THEN Append(warnings, Message("Low test coverage", {}))
                    ELSE warnings
              /\ printed' = IF r = "exception" THEN printed
                            ELSE Append(printed, "result.stdout")
              /\ Returned("run_tests_with_coverage", r = "zero")
    /\ UNCHANGED << script, pc, status, llvmVars, host, at >>

\* validate_imports: a file that does not parse adds an error, an import
\* from src adds a warning, and the validation returns True all the same
ValidateImports ==
    /\ Calling("validate_imports")
    /\ \E unparsed \in SUBSET MaybeUnparsed,
          absolute \in SUBSET MaybeUnparsed :
          /\ errors' = IF unparsed # {}
                       THEN Append(errors, Message("Error parsing", unparsed))
                       ELSE errors
          /\ warnings' =
                IF absolute \ unparsed # {}
                THEN Append(warnings,
                            Message("Should use relative import",
                                    absolute \ unparsed))
                ELSE warnings
          /\ Returned("validate_imports", TRUE)
    /\ UNCHANGED << script, pc, status, llvmVars, host, printed, at, stats >>

\* count_lines_of_code, after the loop: a file that cannot be opened or
\* decoded raises
CountLinesOfCode ==
    /\ InRunAll /\ step = Len(validations) + 1
    /\ \/ /\ \E total_lines \in LineCounts :
                stats' = [stats EXCEPT !.lines_of_code = total_lines]
          /\ at' = "summary"
          /\ UNCHANGED << pc, status, host, printed >>
       \/ /\ stats' = stats
          /\ Raised
    /\ UNCHANGED << script, llvmVars, step, errors, warnings, all_passed,
                    ran >>

\* lines 242-263: the summary is printed and all_passed returned
Summary ==
    /\ Running /\ Cur.op = "run_all_validations" /\ at = "summary"
    /\ printed' = printed
                    \o << "Validation Summary:" >>
                    \o (IF errors # <<>> THEN << "Errors:" >> ELSE <<>>)
                    \o (IF warnings # <<>> THEN << "Warnings:" >> ELSE <<>>)
                    \o (IF all_passed
                        THEN << "All validations passed successfully!" >>
                        ELSE << "Some validations failed" >>)
    /\ host' = (Cur.dst :> all_passed) @@ host
    /\ at' = "returned"
    /\ pc' = pc + 1
    /\ UNCHANGED << script, status, llvmVars, step, errors, warnings, stats,
                    all_passed, ran >>

\* sys.exit(0 if success else 1)
SysExit ==
    /\ Running /\ Cur.op = "sys_exit"
    /\ host' = ("exit_code" :> (IF host[Cur.a] THEN 0 ELSE 1)) @@ host
    /\ status' = "exited"
    /\ UNCHANGED << script, pc, llvmVars, printed, validatorVars >>

Next ==
    \/ Initialize \/ NewModule \/ NewFunction \/ AppendBasicBlock
    \/ NewBuilder \/ PositionAtEnd \/ Emit \/ EmitTerminator \/ NewGlobal
    \/ PrintIt \/ Str \/ Parse \/ Verify
    \/ CreatePassManager \/ AddPass \/ RunPasses
    \/ CreateEngine \/ FinalizeObject \/ RunStaticConstructors
    \/ GetFunctionAddress \/ GetGlobalValueAddress \/ Contents
    \/ CallFunction \/ CallFunctionFar \/ ReturnToHost \/ Exit
    \/ ExecAlloca \/ ExecStore \/ ExecLoad \/ ExecLoadFault \/ ExecGep
    \/ ExecInt \/ ExecFloat \/ ExecBranch \/ ExecCBranch \/ ExecRet
    \/ NewProjectValidator \/ RunAllValidations \/ ValidateStructure
    \/ ValidateCodeStyle \/ ValidateDependencies \/ ValidateGrammar
    \/ RunTestsWithCoverage \/ ValidateImports \/ CountLinesOfCode
    \/ Summary \/ SysExit

\* The steps of a host's run that builds complex_function and calls it.
NextComplex ==
    \/ Initialize \/ NewModule \/ NewFunction \/ AppendBasicBlock
    \/ NewBuilder \/ PositionAtEnd \/ Emit \/ EmitTerminator
    \/ Str \/ Parse \/ Verify
    \/ CreateEngine \/ FinalizeObject \/ GetFunctionAddress
    \/ CallFunction \/ CallFunctionFar \/ ReturnToHost \/ Exit
    \/ ExecAlloca \/ ExecStore \/ ExecLoad \/ ExecInt
    \/ ExecBranch \/ ExecCBranch \/ ExecRet

Spec == Init /\ [][Next]_vars

\* Compiled code runs to completion and the interpreter runs the script to
\* its end: a step that can be taken is taken.
\* The host run that builds complex_function starts like any other.
InitComplex == Init /\ script = "complex_function"

FairSpecComplex ==
    /\ InitComplex
    /\ [][NextComplex]_vars
    /\ WF_vars(NextComplex)

(***************************************************************************)
(* Properties.                                                             *)
(***************************************************************************)
Max(a, b) == IF a >= b THEN a ELSE b

\* the sum of the integers i with 0 <= i < n
RECURSIVE SumBelow(_)
SumBelow(n) == IF n <= 0 THEN 0 ELSE (n - 1) + SumBelow(n - 1)

\* that sum modulo 2^32
SumBelow32(n) ==
    IF n <= 1 THEN 0
    ELSE IF n <= 2 * MaxN THEN SumBelow(n) ELSE SumBelowMod(n)

InCall(f) == mod.fname = f /\ calls > 0 /\ "n" \in DOMAIN env

\* C1: complex_function(n) returns the sum of the integers i with
\* 0 <= i < n, modulo 2^32 -- 0 for n <= 1, 10 for n = 5.
C1_ReturnsSumBelow ==
    (InCall("complex_function") /\ blk = "returned") =>
        /\ retval = SumBelow32(env["n"])
        /\ env["n"] <= 1 => retval = 0
        /\ env["n"] = 5 => retval = 10

C1_Witness ==
    /\ script = "complex_function" /\ blk = "returned"
    /\ env["n"] = 5 /\ retval = 10

FloatTwo == Fin(0, 2^(MantBits - 1), 2 - MantBits)

\* C2: the call of linear_regression_ir.py, x = [1..5], y = [2,4,..,10],
\* n = 5, leaves 15, 30, 55, 110 in the sums and stores the slope 2 and
\* the intercept 0 in m_value and b_value, which the host reads back.
C2_ExampleFit ==
    script = "linear_regression_ir" =>
        /\ status \in { "running", "exited" }
        /\ blk = "returned" =>
              /\ xs = << 1, 2, 3, 4, 5 >> /\ ys = << 2, 4, 6, 8, 10 >>
              /\ env["n"] = 5
              /\ mem["sum_x"] = 15 /\ mem["sum_y"] = 30
              /\ mem["sum_xx"] = 55 /\ mem["sum_xy"] = 110
              /\ mem["m_value"] = FloatTwo /\ mem["b_value"] = FZero(0)
        /\ "m_value" \in DOMAIN host => host["m_value"] = FloatTwo
        /\ "b_value" \in DOMAIN host => host["b_value"] = FZero(0)
        /\ status = "exited" => { "m_value", "b_value" } \subseteq DOMAIN host

C2_Witness ==
    /\ script = "linear_regression_ir" /\ status = "exited" /\ calls = 1
    /\ host["m_value"] = FloatTwo /\ host["b_value"] = FZero(0)

\* C3: the engine goes Unbuilt -> Compiled -> Finalized -> Disposed, it is
\* created from the parsed module, the step after its creation is
\* finalize_object, and an address is asked of it or compiled code runs
\* only while it is Finalized.
C3_EngineOrder ==
    [][ /\ engine' # engine =>
              << engine, engine' >> \in { << "Unbuilt", "Compiled" >>,
                                          << "Compiled", "Finalized" >>,
                                          << "Finalized", "Disposed" >> }
        /\ (engine = "Unbuilt" /\ engine' = "Compiled") => mod # NoModule
        /\ engine = "Compiled" => engine' = "Finalized"
        /\ (resolved' # resolved \/ calls' # calls) => engine = "Finalized"
        /\ (blk # "idle" \/ blk' # "idle") => engine = "Finalized"
      ]_vars

C3_Witness ==
    /\ script = "jit_compile" /\ engine = "Disposed" /\ calls = 1
    /\ resolved = { "example_function" }

\* C4: passes have run over the module, or an engine has been created from
\* it, only if verify has returned without error on that module.
C4_VerifiedBeforeUse ==
    /\ (applied # <<>> \/ engine # "Unbuilt") =>
           (verified /\ WellFormed(mod))
    /\ status = "raised" /\ Cur.op = "verify" =>
           (applied = <<>> /\ engine = "Unbuilt")

C4_Witness ==
    /\ script = "optimize_ir" /\ verified
    /\ applied # <<>> /\ "mod" \in { printed[k] : k \in 1..Len(printed) }

PipelineOf(s) ==
    LET adds == { j \in 1..Len(Listing(s)) : Listing(s)[j].op = "add_pass" }
    IN  [k \in 1..Cardinality(adds) |-> Listing(s)[Nth(adds, k)].a]

\* C5: the passes applied to the module are none or the whole pipeline; a
\* pass that fails to register ends the run with no pass applied and the
\* module never printed.
C5_NoPartialPipeline ==
    /\ applied \in { <<>>, PipelineOf(script) }
    /\ applied # <<>> =>
           \A k \in 1..Len(applied) : applied[k] \in available
    /\ (status = "raised" /\ Cur.op = "add_pass") =>
           /\ applied = <<>>
           /\ \A k \in 1..Len(printed) : printed[k] # "mod"

C5_Witness ==
    /\ script = "optimize_ir" /\ status = "raised" /\ Cur.op = "add_pass"
    /\ Len(pm) >= 1 /\ applied = <<>> /\ printed = <<>>

LastOf(m, b) == m.blocks[b][Len(m.blocks[b])]

PostTest(m) ==
    /\ m.order = << "entry", "loop", "after_loop" >>
    /\ LastOf(m, "entry").op = "branch" /\ LastOf(m, "entry").a = "loop"
    /\ LastOf(m, "loop").op = "cbranch"
    /\ LastOf(m, "loop").a = "loop" /\ LastOf(m, "loop").b = "after_loop"
    /\ LET c == m.blocks["loop"][Len(m.blocks["loop"]) - 1]
       IN  /\ c.op = "icmp_slt" /\ c.dst = LastOf(m, "loop").dst
           /\ c.a = "next_i" /\ c.b = "n"

\* C6: in complex_function and linear_regression the entry block branches
\* unconditionally to loop, loop ends in a branch to itself when
\* next_i < n and to after_loop otherwise, and the loop block is entered
\* n times when n >= 1 and once when n <= 0.
C6_PostTestLoop ==
    mod.fname \in { "complex_function", "linear_regression" } =>
        /\ PostTest(mod)
        /\ calls > 0 =>
              /\ blk = "entry" <=> iters = 0
              /\ iters <= Max(env["n"], 1)
              /\ blk = "after_loop" => ~(env["next_i"] < env["n"])
              /\ (blk = "loop" /\ ip = 1 /\ iters > 1) =>
                     env["next_i"] < env["n"]
              /\ blk \in { "after_loop", "returned" } =>
                     iters = Max(env["n"], 1)
              /\ status = "crashed" => iters = 1

C6_Witness ==
    /\ mod.fname = "linear_regression" /\ blk = "returned"
    /\ env["n"] = 3 /\ iters = 3

\* C7: jit_compile.py runs to its end, and the call of example_function
\* it makes after verify and finalize_object returns 42.
C7_Returns42 ==
    script = "jit_compile" =>
        /\ status \in { "running", "exited" }
        /\ "result" \in DOMAIN host =>
              /\ host["result"] = 42
              /\ verified /\ engine \in { "Finalized", "Disposed" }
              /\ "example_function" \in resolved
        /\ status = "exited" => "result" \in DOMAIN host

C7_Witness ==
    /\ script = "jit_compile" /\ status = "exited"
    /\ host["result"] = 42 /\ printed = << "result" >>

Terminated(b) ==
    \E j \in 1..Len(bmod.blocks[b]) : IsTerminator(bmod.blocks[b][j])

EmissionOver ==
    /\ bmod.fname # ""
    /\ \A j \in pc..Len(Listing(script)) :
          Listing(script)[j].op \notin
              InstrOps \cup TermOps \cup { "append_basic_block" }

\* C8: an instruction is never emitted into a block that has a terminator,
\* and once emission is over the function has the single entry block
\* entry and every block ends in a terminator, its only one.
C8_BlocksWellFormed ==
    /\ (Running /\ Cur.op \in InstrOps \cup TermOps) => ~Terminated(cursor)
    /\ \A b \in DOMAIN bmod.blocks : \A j \in 1..Len(bmod.blocks[b]) - 1 :
          ~IsTerminator(bmod.blocks[b][j])
    /\ EmissionOver =>
          /\ Len(bmod.order) >= 1 /\ bmod.order[1] = "entry"
          /\ Cardinality({ k \in 1..Len(bmod.order) :
                              bmod.order[k] = "entry" }) = 1
          /\ \A b \in DOMAIN bmod.blocks :
                /\ Len(bmod.blocks[b]) >= 1
                /\ IsTerminator(bmod.blocks[b][Len(bmod.blocks[b])])
                /\ \E k \in 1..Len(bmod.order) : bmod.order[k] = b

C8_Witness ==
    /\ script = "linear_regression_ir" /\ EmissionOver
    /\ DOMAIN bmod.blocks = { "entry", "loop", "after_loop" }
    /\ \A b \in DOMAIN bmod.blocks : Terminated(b)

ComplexCall == mod.fname = "complex_function" /\ calls > 0

\* C9: in a call of complex_function the counter i starts at 0, goes up by
\* exactly 1 at a time without wrapping, never exceeds max(n, 1), and the
\* call reaches its return, after max(n, 1) entries of the loop block.
C9_CounterAndTermination ==
    /\ [](ComplexCall /\ "i" \in DOMAIN mem =>
            /\ mem["i"] >= 0 /\ mem["i"] <= Max(env["n"], 1)
            /\ iters = 0 => mem["i"] = 0
            /\ blk = "returned" =>
                  mem["i"] = Max(env["n"], 1) /\ iters = Max(env["n"], 1))
    /\ [][(ComplexCall /\ "i" \in DOMAIN mem /\ mem'["i"] # mem["i"]) =>
            (mem["i"] < IntMax /\ mem'["i"] = mem["i"] + 1)]_vars
    /\ (ComplexCall /\ blk \in DOMAIN mod.blocks) ~>
            (ComplexCall /\ blk = "returned" /\ iters = Max(env["n"], 1))

C9_Witness ==
    /\ ComplexCall /\ blk = "returned" /\ env["n"] = IntMax
    /\ mem["i"] = IntMax /\ iters = IntMax

ExpectedAccesses(k) ==
    [j \in 1..4 * k |->
        << IF (j - 1) % 4 < 2 THEN "gep" ELSE "load",
           IF (j - 1) % 2 = 0 THEN "x_array" ELSE "y_array",
           (j - 1) \div 4 >>]

IsPrefix(u, v) == Len(u) <= Len(v) /\ u = SubSeq(v, 1, Len(u))

LRCall == mod.fname = "linear_regression" /\ calls > 0

Ended == blk = "returned" \/ status = "crashed"

AccessesInRange ==
    (LRCall /\ env["n"] >= 1) =>
        /\ Len(xs) = env["n"] /\ Len(ys) = env["n"]
        /\ \A j \in 1..Len(accesses) : accesses[j][3] \in 0..(env["n"] - 1)
        /\ IsPrefix(accesses, ExpectedAccesses(env["n"]))
        /\ status # "crashed"
        /\ blk = "returned" => accesses = ExpectedAccesses(env["n"])

\* C10: in a call of linear_regression with n >= 1 and arrays of length n,
\* the element addresses computed and loaded are those of x and y at
\* 0, 1, .., n - 1, each once and in that order; with n <= 0 the address of
\* index 0 of both arrays is computed and x[0] is loaded, outside arrays of
\* length 0, and y[0] too unless the load of x[0] faults.
C10_ElementAccesses ==
    /\ AccessesInRange
    /\ (LRCall /\ env["n"] <= 0) =>
          /\ Len(xs) = 0 /\ Len(ys) = 0
          /\ IsPrefix(accesses, ExpectedAccesses(1))
          /\ blk = "returned" => accesses = ExpectedAccesses(1)
          /\ status = "crashed" => Len(accesses) >= 3

C10_Witness ==
    /\ LRCall /\ env["n"] = 0 /\ status = "crashed"
    /\ accesses = SubSeq(ExpectedAccesses(1), 1, 3)

\* C10 as first stated: with n <= 0 the call reads index 0 of both arrays
\* once, however it ends.
C10_ReadsBothAtZero ==
    /\ AccessesInRange
    /\ (LRCall /\ env["n"] <= 0 /\ Ended) => accesses = ExpectedAccesses(1)

RECURSIVE SumOf(_, _)
SumOf(u, k) == IF k = 0 THEN 0 ELSE u[k] + SumOf(u, k - 1)

RECURSIVE SumSquares(_, _)
SumSquares(u, k) == IF k = 0 THEN 0 ELSE u[k] * u[k] + SumSquares(u, k - 1)

AllEqual(u) == \A j \in 1..Len(u) : u[j] = u[1]

\* a call with n >= 1 has computed the slope's divisor from sums that did
\* not overflow 32 bits
DivisorComputed ==
    /\ LRCall /\ env["n"] >= 1 /\ "denominator_m" \in DOMAIN env
    /\ mem["sum_x"] = SumOf(xs, Len(xs))
    /\ mem["sum_xx"] = SumSquares(xs, Len(xs))

\* n * sum_xx, and so sum_x * sum_x, is an integer a float holds exactly
ExactProducts == env["n"] * mem["sum_xx"] < 2^MantBits

DivisorSign ==
    LET d == env["denominator_m"]
    IN  /\ d.k = "fin"
        /\ d.m # 0 => d.s = 0
        /\ d.m = 0 <=> AllEqual(xs)
        /\ env["n"] = 1 => d.m = 0
        /\ ("m" \in DOMAIN env /\ ~AllEqual(xs)) => env["m"].k = "fin"

\* C11: in a call of linear_regression with n >= 1 whose 32-bit sums do not
\* overflow and whose product n * sum_xx is below 2^24, the divisor
\* n * sum_xx - sum_x * sum_x of the slope is not negative, it is zero
\* exactly when the x values are all equal (always when n = 1), and
\* otherwise it is positive and the slope is a finite quotient.
C11_DivisorSignExact == (DivisorComputed /\ ExactProducts) => DivisorSign

C11_Witness ==
    /\ DivisorComputed /\ ExactProducts /\ blk = "returned"
    /\ xs = << -1, 0, 2 >> /\ env["denominator_m"].s = 0
    /\ env["denominator_m"].m # 0 /\ env["m"].k = "fin"

\* C11 as first stated: the same of every call whose 32-bit sums do not
\* overflow.
C11_DivisorSign == DivisorComputed => DivisorSign

\* the validations called so far, without what they returned
Called == [j \in 1..Len(ran) |-> ran[j][1]]

FailedSteps == { j \in 1..Len(ran) : ~ran[j][2] }

SomeValidation ==
    \/ ValidateStructure \/ ValidateCodeStyle \/ ValidateDependencies
    \/ ValidateGrammar \/ RunTestsWithCoverage \/ ValidateImports

RunAllReturned == script = "validate_all" /\ at = "returned"

====
